---- MODULE Spec2Model ----
(***************************************************************************)
(* Model of the browser-canvas window backend of kiss3d                    *)
(* (src/window/webgl_canvas.rs): the WebGLCanvas value, the five DOM       *)
(* event listeners registered by open, poll_events and render_loop.        *)
(*                                                                         *)
(* The host (browser) is the environment: it dispatches raw DOM events,    *)
(* lays out the canvas element, and runs requested animation frames.       *)
(* Everything runs on one thread, so each listener, each call of the       *)
(* canvas API and each frame callback is one atomic step.                  *)
(***************************************************************************)
EXTENDS Integers, Sequences, FiniteSets, TLC

VARIABLES
    phase,            \* "unopened" | "open" | "failed" (open panicked)
    canvasPresent,    \* host: does document.querySelector("#canvas") find a canvas
    devicePixelRatio, \* host: window.devicePixelRatio, in halves (3 is 1.5)
    offset,           \* host: <<offsetWidth, offsetHeight>> of the canvas element
    canvas_size,      \* WebGLCanvasData.canvas: its <<width, height>> attributes
    hidpi_factor,     \* WebGLCanvas.hidpi_factor, in halves
    key_states,       \* WebGLCanvasData.key_states
    button_states,    \* WebGLCanvasData.button_states
    pending_events,   \* WebGLCanvasData.pending_events
    out_events,       \* the channel behind WebGLCanvasData.out_events: the events
                      \* the Receiver was sent while it existed
    rx_alive,         \* the receiving end of the channel still exists
    listeners,        \* WebGLCanvas.listeners: the event kinds subscribed to
    panicked,         \* a listener or a call panicked
    rawLog,           \* history: the raw host events dispatched so far
    sent,             \* history: the events handed to out_events.send, in order
    last,             \* history: the operation that ran last
    borrow_flag,      \* the RefCell around WebGLCanvasData: 0 unused, n > 0
                      \* shared borrows, -1 one mutable borrow
    rc_strong,        \* strong count of the Rc around the RefCell (0: freed)
    canvas_dropped,   \* the WebGLCanvas value returned by open was dropped
    chains,           \* render_loop chains started so far (one per callback)
    requested,        \* host: outstanding animation-frame requests per chain
    running,          \* the chain whose callback is executing, or 0
    invocations,      \* history: callback invocations started, per chain
    rearmed,          \* the executing callback has called render_loop itself
    declined,         \* history: chains whose last callback returned without
                      \* calling render_loop
    now               \* host clock: the timestamp of the latest frame

evars == <<phase, canvasPresent, devicePixelRatio, offset, canvas_size,
           hidpi_factor, key_states, button_states, pending_events, out_events,
           rx_alive, listeners, panicked, rawLog, sent, last, borrow_flag,
           rc_strong, canvas_dropped>>
lvars == <<chains, requested, running, invocations, rearmed, declined, now>>
vars == <<evars, lvars>>

----------------------------------------------------------------------------
(* Bounds of the model *)

\* raw host events dispatched in one behaviour
MaxRaw == 3
\* raw host events dispatched in one behaviour that also exercises the
\* rest of the canvas interface
MaxApiRaw == 1
\* raw events the host dispatches in a behaviour of SpecLive
MaxLiveRaw == 1
\* render-loop chains started in one behaviour
MaxChains == 2
\* callback invocations per chain
MaxFrames == 2
\* largest host clock value
MaxTime == 2

----------------------------------------------------------------------------
(* Types of event.rs, as far as the backend names them *)

Press == "Press"
Release == "Release"
Action == {Press, Release}

MouseButtons == {"Button1", "Button2", "Button3", "Button4", "Button5",
                 "Button6", "Button7", "Button8"}
Keys == {"A", "Space", "Unknown"}

\* stdweb's webevent::MouseButton: the values IMouseEvent::button() returns
WebMouseButtons == {"Left", "Wheel", "Right", "Button4", "Button5"}

\* a value outside the MouseButton enumeration
NoButton == "NoButton"

----------------------------------------------------------------------------
(* Inputs the host can produce *)

Flags(s, c, a, m) == [shift |-> s, ctrl |-> c, alt |-> a, meta |-> m]
NoFlags == Flags(FALSE, FALSE, FALSE, FALSE)
\* the button and modifier flags of the raw mouse-down / mouse-up events
RawClicks == {<<"Left", NoFlags>>,
              <<"Wheel", Flags(TRUE, FALSE, TRUE, FALSE)>>,
              <<"Right", Flags(FALSE, TRUE, FALSE, TRUE)>>,
              <<"Button4", NoFlags>>,
              <<"Button5", Flags(TRUE, TRUE, TRUE, TRUE)>>}
\* client coordinates and modifier flags of the raw mouse-move events
RawMoves == {<<120, 80, NoFlags>>, <<0, 7, Flags(FALSE, TRUE, FALSE, FALSE)>>}
\* a wheel delta as JavaScript hands it over: an integer, or a number
\* that does not convert to i32
JsInt(v) == [int |-> TRUE, v |-> v]
JsFrac == [int |-> FALSE, v |-> 0]
RawWheels == {<<JsInt(-3), JsFrac, Flags(FALSE, FALSE, FALSE, TRUE)>>}
OffsetSizes == {<<800, 600>>, <<401, 301>>}
DprSet == {2, 3}
\* kind and key code of the raw keyboard events; "Unidentified" names no Key
RawKeys == {<<"keydown", "A">>, <<"keyup", "A">>, <<"keydown", "Unidentified">>}

----------------------------------------------------------------------------
(* Events (event.rs WindowEvent), as the listeners construct them *)

MouseButtonEvent(b, a, m) ==
    [type |-> "MouseButton", button |-> b, action |-> a, mods |-> m]
CursorPos(x, y, m) == [type |-> "CursorPos", x |-> x, y |-> y, mods |-> m]
Scroll(dx, dy, m) == [type |-> "Scroll", dx |-> dx, dy |-> dy, mods |-> m]
FramebufferSize(w, h) == [type |-> "FramebufferSize", w |-> w, h |-> h]
Size(w, h) == [type |-> "Size", w |-> w, h |-> h]

----------------------------------------------------------------------------
(* Pure helpers of webgl_canvas.rs *)

translate_modifiers(f) ==
    (IF f.shift THEN {"Shift"} ELSE {}) \cup
    (IF f.ctrl THEN {"Control"} ELSE {}) \cup
    (IF f.alt THEN {"Alt"} ELSE {}) \cup
    (IF f.meta THEN {"Super"} ELSE {})

translate_mouse_button_partial(b) ==
    CASE b = "Left" -> "Button1"
      [] b = "Right" -> "Button2"
      [] b = "Button4" -> "Button4"
      [] b = "Button5" -> "Button5"
      [] OTHER -> NoButton
translate_mouse_button_dom_order(b) ==
    CASE b = "Left" -> "Button1"
      [] b = "Wheel" -> "Button2"
      [] b = "Right" -> "Button3"
      [] b = "Button4" -> "Button4"
      [] b = "Button5" -> "Button5"
translate_mouse_button(b) ==
    CASE b = "Left" -> "Button1"
      [] b = "Right" -> "Button2"
      [] b = "Wheel" -> "Button3"
      [] b = "Button4" -> "Button4"
      [] b = "Button5" -> "Button5"

\* (v as f64 * hidpi_factor) as u32, the factor counted in halves
Scaled(v, f) == (v * f) \div 2

\* js!(return e.deltaX).try_into().ok().unwrap_or(0) as f64
WheelDelta(d) == IF d.int THEN d.v ELSE 0

Reverse(q) == [i \in 1..Len(q) |-> q[Len(q) + 1 - i]]

\* the order in which pending_events.drain(..) yields the queued events
DrainOrderBackToFront(q) == Reverse(q)
DrainOrderNothing(q) == <<>>
DrainOrder(q) == q

\* the successful sends of one drain: for e in drain(..) { let _ = send(e) }
SendAll(chan, q, alive) == IF alive THEN chan \o q ELSE chan

\* what pending_events holds once drain(..) is dropped
DrainedKeepsAll(q) == q
DrainedKeepsLast(q) == IF q = <<>> THEN q ELSE <<q[Len(q)]>>
Drained(q) == <<>>

\* the two pushes of the resize listener
PushResizeCoalescing(q, w, h) ==
    IF Len(q) >= 2 /\ q[Len(q)].type = "Size"
    THEN SubSeq(q, 1, Len(q) - 2) \o <<FramebufferSize(w, h), Size(w, h)>>
    ELSE q \o <<FramebufferSize(w, h), Size(w, h)>>
PushResize(q, w, h) == Append(Append(q, FramebufferSize(w, h)), Size(w, h))

\* button_states[button as usize] = action
\* (indexing outside the array panics and writes nothing)
InBounds(b) == b \in MouseButtons
WriteButtonAndNext(states, b, a) ==
    IF InBounds(b)
    THEN [x \in DOMAIN states |->
             IF x = b \/ (b = "Button1" /\ x = "Button2") THEN a ELSE states[x]]
    ELSE states
WriteButtonPressOnly(states, b, a) ==
    IF InBounds(b) /\ a = Press THEN [states EXCEPT ![b] = a] ELSE states
WriteButton(states, b, a) ==
    IF InBounds(b) THEN [states EXCEPT ![b] = a] ELSE states

----------------------------------------------------------------------------
(* Rc<RefCell<WebGLCanvasData>>: the borrows each handler takes *)

\* one borrow operation on a RefCell with borrow flag f
BorrowOk(f, op) ==
    CASE op = "borrow_mut" -> f = 0
      [] op = "borrow" -> f >= 0
      [] OTHER -> TRUE
BorrowFlag(f, op) ==
    CASE op = "borrow_mut" -> -1
      [] op = "borrow" -> f + 1
      [] op = "drop_mut" -> 0
      [] op = "drop" -> f - 1

\* the borrow operations ops in order, from flag f, up to the first one
\* that panics: the flag reached, and whether all succeeded
RECURSIVE RunBorrows(_, _)
RunBorrows(f, ops) ==
    IF ops = <<>> THEN [flag |-> f, ok |-> TRUE]
    ELSE IF ~BorrowOk(f, Head(ops)) THEN [flag |-> f, ok |-> FALSE]
    ELSE RunBorrows(BorrowFlag(f, Head(ops)), Tail(ops))

\* a listener: let mut edata = edata.borrow_mut(); ... dropped at its end
ListenerBorrowsKept == <<"borrow_mut">>
ListenerBorrows == <<"borrow_mut", "drop_mut">>

\* poll_events: let mut data_borrow = self.data.borrow_mut(); ...
PollBorrows == <<"borrow_mut", "drop_mut">>

\* size: (self.data.borrow()...., self.data.borrow()....)
SizeBorrows == <<"borrow", "borrow", "drop", "drop">>

\* get_mouse_button / get_key: self.data.borrow().button_states[..]
GetBorrows == <<"borrow", "drop">>

\* strong references to the shared data once open has returned: `data`
\* and one `edata` clone moved into each listener closure
StrongCountWeakClosures(kinds) == 1
StrongCount(kinds) == 1 + Cardinality(kinds)

----------------------------------------------------------------------------
(* State after process start: nothing opened yet *)

Init ==
    /\ phase = "unopened"
    /\ canvasPresent \in BOOLEAN
    /\ devicePixelRatio \in DprSet
    /\ offset = <<800, 600>>
    /\ canvas_size = <<300, 150>>
    /\ hidpi_factor = 0
    /\ key_states = [k \in Keys |-> Release]
    /\ button_states = [b \in MouseButtons |-> Release]
    /\ pending_events = <<>>
    /\ out_events = <<>>
    /\ rx_alive = TRUE
    /\ listeners = {}
    /\ panicked = FALSE
    /\ rawLog = <<>>
    /\ sent = <<>>
    /\ last = "start"
    /\ borrow_flag = 0
    /\ rc_strong = 0
    /\ canvas_dropped = FALSE
    /\ chains = 0
    /\ requested = [c \in 1..MaxChains |-> 0]
    /\ running = 0
    /\ invocations = [c \in 1..MaxChains |-> 0]
    /\ rearmed = FALSE
    /\ declined = {}
    /\ now = 0

----------------------------------------------------------------------------
(* WebGLCanvas::open *)

\* document.query_selector("#canvas") ... .unwrap(): is there a canvas
CanvasFoundUnchecked == TRUE
CanvasFound == canvasPresent

open ==
    /\ phase = "unopened"
    /\ last' = "open"
    /\ IF CanvasFound
       THEN /\ phase' = "open"
            /\ hidpi_factor' = devicePixelRatio
            /\ canvas_size' = <<Scaled(offset[1], devicePixelRatio),
                                Scaled(offset[2], devicePixelRatio)>>
            /\ key_states' = [k \in Keys |-> Release]
            /\ button_states' = [b \in MouseButtons |-> Release]
            /\ pending_events' = <<>>
            /\ listeners' = {"resize", "mousedown", "mousemove", "mouseup", "wheel"}
            /\ rc_strong' =
                   StrongCount({"resize", "mousedown", "mousemove", "mouseup", "wheel"})
            /\ UNCHANGED panicked
       ELSE /\ phase' = "failed"
            /\ panicked' = TRUE
            /\ UNCHANGED <<hidpi_factor, canvas_size, key_states, button_states,
                           pending_events, listeners, rc_strong>>
    /\ UNCHANGED <<canvasPresent, devicePixelRatio, offset, out_events, rx_alive,
                   rawLog, sent, borrow_flag, canvas_dropped>>
    /\ UNCHANGED lvars

----------------------------------------------------------------------------
(* The host dispatches one raw event; the listener registered for its    *)
(* kind, if any, runs to completion.                                      *)

CanDispatch(kind) ==
    /\ phase = "open"
    /\ ~panicked
    /\ Len(rawLog) < MaxRaw

HostFrame == <<canvasPresent, devicePixelRatio, out_events, rx_alive, sent,
               phase, hidpi_factor, listeners, rc_strong, canvas_dropped>>

\* the "resize" listener (the host has laid the canvas out at size sz)
resize ==
    /\ CanDispatch("resize")
    /\ "resize" \in listeners
    /\ \E sz \in OffsetSizes :
         LET w == Scaled(sz[1], hidpi_factor)
             h == Scaled(sz[2], hidpi_factor)
             r == RunBorrows(borrow_flag, ListenerBorrows)
         IN /\ offset' = sz
            /\ canvas_size' = IF r.ok THEN <<w, h>> ELSE canvas_size
            /\ pending_events' =
                   IF r.ok THEN PushResize(pending_events, w, h) ELSE pending_events
            /\ panicked' = ~r.ok
            /\ borrow_flag' = r.flag
            /\ rawLog' = Append(rawLog, [kind |-> "resize", size |-> sz])
    /\ last' = "resize"
    /\ UNCHANGED <<key_states, button_states>>
    /\ UNCHANGED HostFrame
    /\ UNCHANGED lvars

\* the "mousedown" listener
mouse_down ==
    /\ CanDispatch("mousedown")
    /\ "mousedown" \in listeners
    /\ \E c \in RawClicks :
         LET button == translate_mouse_button(c[1])
             r == RunBorrows(borrow_flag, ListenerBorrows)
         IN /\ pending_events' =
                   IF r.ok
                   THEN Append(pending_events,
                            MouseButtonEvent(button, Press, translate_modifiers(c[2])))
                   ELSE pending_events
            /\ button_states' =
                   IF r.ok THEN WriteButton(button_states, button, Press)
                   ELSE button_states
            /\ panicked' = (~r.ok \/ ~InBounds(button))
            /\ borrow_flag' = r.flag
            /\ rawLog' = Append(rawLog,
                   [kind |-> "mousedown", button |-> c[1], flags |-> c[2]])
    /\ last' = "mousedown"
    /\ UNCHANGED <<key_states, offset, canvas_size>>
    /\ UNCHANGED HostFrame
    /\ UNCHANGED lvars

\* the "mouseup" listener
mouse_up ==
    /\ CanDispatch("mouseup")
    /\ "mouseup" \in listeners
    /\ \E c \in RawClicks :
         LET button == translate_mouse_button(c[1])
             r == RunBorrows(borrow_flag, ListenerBorrows)
         IN /\ pending_events' =
                   IF r.ok
                   THEN Append(pending_events,
                            MouseButtonEvent(button, Release, translate_modifiers(c[2])))
                   ELSE pending_events
            /\ button_states' =
                   IF r.ok THEN WriteButton(button_states, button, Release)
                   ELSE button_states
            /\ panicked' = (~r.ok \/ ~InBounds(button))
            /\ borrow_flag' = r.flag
            /\ rawLog' = Append(rawLog,
                   [kind |-> "mouseup", button |-> c[1], flags |-> c[2]])
    /\ last' = "mouseup"
    /\ UNCHANGED <<key_states, offset, canvas_size>>
    /\ UNCHANGED HostFrame
    /\ UNCHANGED lvars

\* the "mousemove" listener
mouse_move ==
    /\ CanDispatch("mousemove")
    /\ "mousemove" \in listeners
    /\ \E m \in RawMoves :
         LET r == RunBorrows(borrow_flag, ListenerBorrows)
         IN /\ pending_events' =
                   IF r.ok
                   THEN Append(pending_events,
                            CursorPos(m[1], m[2], translate_modifiers(m[3])))
                   ELSE pending_events
            /\ panicked' = ~r.ok
            /\ borrow_flag' = r.flag
            /\ rawLog' = Append(rawLog,
                   [kind |-> "mousemove", x |-> m[1], y |-> m[2], flags |-> m[3]])
    /\ last' = "mousemove"
    /\ UNCHANGED <<key_states, button_states, offset, canvas_size>>
    /\ UNCHANGED HostFrame
    /\ UNCHANGED lvars

\* the "wheel" listener
wheel ==
    /\ CanDispatch("wheel")
    /\ "wheel" \in listeners
    /\ \E d \in RawWheels :
         LET r == RunBorrows(borrow_flag, ListenerBorrows)
         IN /\ pending_events' =
                   IF r.ok
                   THEN Append(pending_events,
                            Scroll(WheelDelta(d[1]), WheelDelta(d[2]),
                                   translate_modifiers(d[3])))
                   ELSE pending_events
            /\ panicked' = ~r.ok
            /\ borrow_flag' = r.flag
            /\ rawLog' = Append(rawLog,
                   [kind |-> "wheel", dx |-> d[1], dy |-> d[2], flags |-> d[3]])
    /\ last' = "wheel"
    /\ UNCHANGED <<key_states, button_states, offset, canvas_size>>
    /\ UNCHANGED HostFrame
    /\ UNCHANGED lvars

\* a raw keyboard event: open subscribes to no keyboard event kind, so
\* no code of the canvas runs
key_event ==
    /\ \E k \in RawKeys :
         /\ CanDispatch(k[1])
         /\ k[1] \notin listeners
         /\ rawLog' = Append(rawLog, [kind |-> k[1], code |-> k[2]])
         /\ last' = k[1]
    /\ UNCHANGED <<key_states, button_states, pending_events, panicked, offset,
                   canvas_size, borrow_flag>>
    /\ UNCHANGED HostFrame
    /\ UNCHANGED lvars

----------------------------------------------------------------------------
(* WebGLCanvas::poll_events *)

\* let _ = data.out_events.send(e): does a failed send panic
SendPanicsOnError(q, alive) == q # <<>> /\ ~alive
SendPanics(q, alive) == FALSE

\* a call of a method of the WebGLCanvas value is possible
CanCall ==
    /\ phase = "open"
    /\ ~panicked
    /\ ~canvas_dropped

poll_events ==
    /\ CanCall
    /\ LET r == RunBorrows(borrow_flag, PollBorrows)
           fails == SendPanics(pending_events, rx_alive)
       IN /\ sent' = IF r.ok THEN sent \o DrainOrder(pending_events) ELSE sent
          /\ out_events' =
                 IF r.ok /\ ~fails
                 THEN SendAll(out_events, DrainOrder(pending_events), rx_alive)
                 ELSE out_events
          /\ pending_events' =
                 IF r.ok /\ ~fails THEN Drained(pending_events) ELSE pending_events
          /\ panicked' = (~r.ok \/ fails)
          /\ borrow_flag' = r.flag
    /\ last' = "poll_events"
    /\ UNCHANGED <<phase, canvasPresent, devicePixelRatio, offset, canvas_size,
                   hidpi_factor, key_states, button_states, rx_alive, listeners,
                   rawLog, rc_strong, canvas_dropped>>
    /\ UNCHANGED lvars

\* the application drops the Receiver of the event channel
drop_receiver ==
    /\ rx_alive
    /\ rx_alive' = FALSE
    /\ UNCHANGED <<out_events, last>>
    /\ UNCHANGED <<phase, canvasPresent, devicePixelRatio, offset, canvas_size,
                   hidpi_factor, key_states, button_states, pending_events,
                   listeners, panicked, rawLog, sent, borrow_flag, rc_strong,
                   canvas_dropped>>
    /\ UNCHANGED lvars

\* WebGLCanvas::get_mouse_button / get_key
get_mouse_button(b) == button_states[b]
get_key(k) == key_states[k]

Next ==
    \/ open
    \/ resize
    \/ mouse_down
    \/ mouse_up
    \/ mouse_move
    \/ wheel
    \/ key_event
    \/ poll_events
    \/ drop_receiver

Spec == Init /\ [][Next]_vars

\* the same steps under an application that keeps calling poll_events
\* (once per frame), over at most MaxLiveRaw raw events
LiveBound == Len(rawLog') <= MaxLiveRaw

NextLive ==
    \/ open /\ LiveBound
    \/ resize /\ LiveBound
    \/ mouse_down /\ LiveBound
    \/ mouse_up /\ LiveBound
    \/ mouse_move /\ LiveBound
    \/ wheel /\ LiveBound
    \/ key_event /\ LiveBound
    \/ poll_events /\ LiveBound
    \/ drop_receiver /\ LiveBound

SpecLive == Init /\ [][NextLive]_vars /\ WF_vars(poll_events)

----------------------------------------------------------------------------
(* The rest of the AbstractCanvas interface, and what else the host and   *)
(* the application can do to the canvas                                   *)

\* what the query methods return
should_close == FALSE
size == <<offset[1], offset[2]>>
get_hidpi_factor_live == devicePixelRatio
get_hidpi_factor == hidpi_factor

\* the variables no method but poll_events writes
CallFrame == <<phase, canvasPresent, devicePixelRatio, offset, canvas_size,
               hidpi_factor, key_states, button_states, pending_events,
               out_events, rx_alive, listeners, rawLog, sent, rc_strong,
               canvas_dropped>>

\* a query method that reads the shared data through the borrows ops
Query(name, ops) ==
    /\ CanCall
    /\ LET r == RunBorrows(borrow_flag, ops)
       IN /\ borrow_flag' = r.flag
          /\ panicked' = ~r.ok
    /\ last' = name
    /\ UNCHANGED CallFrame
    /\ UNCHANGED lvars

\* a method with an empty body
NoOp(name) ==
    /\ CanCall
    /\ last' = name
    /\ UNCHANGED <<borrow_flag, panicked>>
    /\ UNCHANGED CallFrame
    /\ UNCHANGED lvars

call_get_key == Query("get_key", GetBorrows)
call_get_mouse_button_draining ==
    /\ CanCall
    /\ pending_events' = <<>>
    /\ last' = "get_mouse_button"
    /\ UNCHANGED <<phase, canvasPresent, devicePixelRatio, offset, canvas_size,
                   hidpi_factor, key_states, button_states, out_events, rx_alive,
                   listeners, panicked, rawLog, sent, borrow_flag, rc_strong,
                   canvas_dropped>>
    /\ UNCHANGED lvars
call_get_mouse_button == Query("get_mouse_button", GetBorrows)
call_size == Query("size", SizeBorrows)
call_hidpi_factor == Query("hidpi_factor", <<>>)
call_should_close == Query("should_close", <<>>)

swap_buffers == NoOp("swap_buffers")
set_title == NoOp("set_title")
close_marks_closing ==
    /\ CanCall
    /\ phase' = "closing"
    /\ last' = "close"
    /\ UNCHANGED <<canvasPresent, devicePixelRatio, offset, canvas_size,
                   hidpi_factor, key_states, button_states, pending_events,
                   out_events, rx_alive, listeners, panicked, rawLog, sent,
                   borrow_flag, rc_strong, canvas_dropped>>
    /\ UNCHANGED lvars
close == NoOp("close")
hide_releasing_buttons ==
    /\ CanCall
    /\ button_states' = [b \in MouseButtons |-> Release]
    /\ last' = "hide"
    /\ UNCHANGED <<phase, canvasPresent, devicePixelRatio, offset, canvas_size,
                   hidpi_factor, key_states, pending_events, out_events, rx_alive,
                   listeners, panicked, rawLog, sent, borrow_flag, rc_strong,
                   canvas_dropped>>
    /\ UNCHANGED lvars
hide == NoOp("hide")
show == NoOp("show")

\* the host's device-pixel ratio changes (zoom, another monitor)
host_dpr_change ==
    /\ phase = "open"
    /\ \E d \in DprSet :
         /\ d # devicePixelRatio
         /\ devicePixelRatio' = d
    /\ UNCHANGED <<phase, canvasPresent, offset, canvas_size, hidpi_factor,
                   key_states, button_states, pending_events, out_events,
                   rx_alive, listeners, panicked, rawLog, sent, last,
                   borrow_flag, rc_strong, canvas_dropped>>
    /\ UNCHANGED lvars

\* the application drops the WebGLCanvas value: its Rc and its listener
\* handles go. Whether dropping an EventListenerHandle unsubscribes the
\* closure (and so drops the closure's Rc) is the host binding's choice.
drop_canvas ==
    /\ CanCall
    /\ canvas_dropped' = TRUE
    /\ \E unsubscribes \in BOOLEAN :
         /\ listeners' = IF unsubscribes THEN {} ELSE listeners
         /\ rc_strong' = IF unsubscribes THEN 0 ELSE rc_strong - 1
    /\ last' = "drop"
    /\ UNCHANGED <<phase, canvasPresent, devicePixelRatio, offset, canvas_size,
                   hidpi_factor, key_states, button_states, pending_events,
                   out_events, rx_alive, panicked, rawLog, sent, borrow_flag>>
    /\ UNCHANGED lvars

\* at most MaxApiRaw raw events are dispatched in a behaviour of SpecApi
ApiBound == Len(rawLog') <= MaxApiRaw

NextApi ==
    \/ open /\ ApiBound
    \/ resize /\ ApiBound
    \/ mouse_down /\ ApiBound
    \/ mouse_up /\ ApiBound
    \/ mouse_move /\ ApiBound
    \/ wheel /\ ApiBound
    \/ key_event /\ ApiBound
    \/ poll_events /\ ApiBound
    \/ drop_receiver /\ ApiBound
    \/ call_get_key
    \/ call_get_mouse_button
    \/ call_size
    \/ call_hidpi_factor
    \/ call_should_close
    \/ swap_buffers
    \/ set_title
    \/ close
    \/ hide
    \/ show
    \/ host_dpr_change
    \/ drop_canvas

SpecApi == Init /\ [][NextApi]_vars

----------------------------------------------------------------------------
(* WebGLCanvas::render_loop and the host's animation-frame scheduler.      *)
(* A chain is one callback value together with the frame closures          *)
(* render_loop wraps around it.                                            *)

\* window.request_animation_frame(closure) for chain c
RequestFrameTwice(req, c) == [req EXCEPT ![c] = @ + 2]
RequestFrame(req, c) == [req EXCEPT ![c] = @ + 1]

\* the application calls render_loop(callback) with a fresh callback
render_loop ==
    /\ running = 0
    /\ chains < MaxChains
    /\ chains' = chains + 1
    /\ requested' = RequestFrame(requested, chains + 1)
    /\ UNCHANGED <<running, invocations, rearmed, declined, now>>
    /\ UNCHANGED evars

\* the host runs a requested frame closure of chain c: callback(t) starts
frame_begin ==
    /\ running = 0
    /\ \E c \in 1..chains :
         /\ requested[c] > 0
         /\ invocations[c] < MaxFrames
         /\ requested' = [requested EXCEPT ![c] = @ - 1]
         /\ running' = c
         /\ invocations' = [invocations EXCEPT ![c] = @ + 1]
    /\ \E t \in now..MaxTime : now' = t
    /\ rearmed' = FALSE
    /\ UNCHANGED <<chains, declined>>
    /\ UNCHANGED evars

\* the body of the executing callback calls render_loop with another callback
callback_render_loop ==
    /\ running # 0
    /\ ~rearmed
    /\ chains < MaxChains
    /\ chains' = chains + 1
    /\ requested' = RequestFrame(requested, chains + 1)
    /\ rearmed' = TRUE
    /\ UNCHANGED <<running, invocations, declined, now>>
    /\ UNCHANGED evars

\* the frame closure after callback(t): what it asks of the host for chain c
AfterCallbackNoRearm(req, c) == req
AfterCallback(req, c) == RequestFrame(req, c)

\* callback(t) returns and the frame closure finishes:
\* Self::render_loop(callback)
frame_end ==
    /\ running # 0
    /\ requested' = AfterCallback(requested, running)
    /\ declined' = IF rearmed THEN declined \ {running} ELSE declined \cup {running}
    /\ running' = 0
    /\ rearmed' = FALSE
    /\ UNCHANGED <<chains, invocations, now>>
    /\ UNCHANGED evars

NextLoop ==
    \/ render_loop
    \/ frame_begin
    \/ callback_render_loop
    \/ frame_end

SpecLoop == Init /\ [][NextLoop]_vars

----------------------------------------------------------------------------
(* What the properties below compare the program against *)

\* the button table of the mouse listeners, as the specification states it
ButtonTable == [b \in WebMouseButtons |->
                   CASE b = "Left" -> "Button1"
                     [] b = "Right" -> "Button2"
                     [] b = "Wheel" -> "Button3"
                     [] b = "Button4" -> "Button4"
                     [] b = "Button5" -> "Button5"]

\* the modifier bitset of four raw flags
ModifiersOf(f) ==
    {m \in {"Shift", "Control", "Alt", "Super"} :
        \/ m = "Shift" /\ f.shift
        \/ m = "Control" /\ f.ctrl
        \/ m = "Alt" /\ f.alt
        \/ m = "Super" /\ f.meta}

\* the events one raw host event translates to
Translation(e) ==
    CASE e.kind = "resize" ->
           <<FramebufferSize(Scaled(e.size[1], hidpi_factor),
                             Scaled(e.size[2], hidpi_factor)),
             Size(Scaled(e.size[1], hidpi_factor), Scaled(e.size[2], hidpi_factor))>>
      [] e.kind = "mousedown" ->
           <<MouseButtonEvent(ButtonTable[e.button], Press, ModifiersOf(e.flags))>>
      [] e.kind = "mouseup" ->
           <<MouseButtonEvent(ButtonTable[e.button], Release, ModifiersOf(e.flags))>>
      [] e.kind = "mousemove" -> <<CursorPos(e.x, e.y, ModifiersOf(e.flags))>>
      [] e.kind = "wheel" ->
           <<Scroll(WheelDelta(e.dx), WheelDelta(e.dy), ModifiersOf(e.flags))>>
      [] OTHER -> <<>>

RECURSIVE TranslateAll(_)
TranslateAll(log) ==
    IF log = <<>> THEN <<>>
    ELSE TranslateAll(SubSeq(log, 1, Len(log) - 1)) \o Translation(log[Len(log)])

\* every event the listeners have produced so far, in order
Translated == sent \o pending_events

\* the action of the last event of q that names mouse button b
RECURSIVE LastButtonAction(_, _)
LastButtonAction(q, b) ==
    IF q = <<>> THEN Release
    ELSE IF q[Len(q)].type = "MouseButton" /\ q[Len(q)].button = b
         THEN q[Len(q)].action
         ELSE LastButtonAction(SubSeq(q, 1, Len(q) - 1), b)

\* the action of the last event of q that names key k
RECURSIVE LastKeyAction(_, _)
LastKeyAction(q, k) ==
    IF q = <<>> THEN Release
    ELSE IF q[Len(q)].type = "Key" /\ q[Len(q)].key = k
         THEN q[Len(q)].action
         ELSE LastKeyAction(SubSeq(q, 1, Len(q) - 1), k)

IsPrefix(p, q) == Len(p) <= Len(q) /\ SubSeq(q, 1, Len(p)) = p

RawKinds(log) == {log[i].kind : i \in 1..Len(log)}

----------------------------------------------------------------------------
(* Properties *)

\* C1 - order preservation: the events handed to the event sink, followed
\* by those still pending, are exactly the translations of the raw events
\* dispatched so far, in dispatch order, however polls are interleaved.
OrderPreserved == sent \o pending_events = TranslateAll(rawLog)

\* C1 witness: a mouse-down, a resize and a third kind of raw event have
\* been dispatched and all four of their events handed to the sink.
OrderPreservedWitness ==
    /\ Len(rawLog) = 3
    /\ Cardinality(RawKinds(rawLog)) = 3
    /\ "resize" \in RawKinds(rawLog)
    /\ last = "poll_events"
    /\ pending_events = <<>>
    /\ Len(sent) = 4
    /\ rawLog[1].kind = "mousedown"
    /\ sent[1].type = "MouseButton"

\* C2 - no loss, no duplication: events leave the pending queue only by
\* being handed to the sink, all of them at once and each exactly once;
\* a step that sends nothing removes nothing from the queue.
NoLossNoDuplication ==
    [][/\ sent' # sent =>
            /\ sent' = sent \o pending_events
            /\ pending_events' = <<>>
       /\ sent' = sent => IsPrefix(pending_events, pending_events')]_vars

\* C2 witness: two polls have each delivered a batch, and one event is
\* pending again.
NoLossNoDuplicationWitness ==
    /\ Len(sent) = 2
    /\ Len(pending_events) = 1
    /\ Len(rawLog) = 3
    /\ rawLog[1].kind = "wheel"
    /\ rawLog[2].kind = "mousemove"

\* C3 - state tracker: every button's and every key's stored level state
\* is the action of the last translated event naming it, Release if none,
\* drained or not.
StateTrackerInvariant ==
    /\ \A b \in MouseButtons :
         get_mouse_button(b) = LastButtonAction(Translated, b)
    /\ \A k \in Keys : get_key(k) = LastKeyAction(Translated, k)

\* C3 witness: a button was pressed, released and pressed again while a
\* poll came in between, and its press is still undrained.
StateTrackerWitness ==
    /\ Len(rawLog) = 3
    /\ rawLog[1].kind = "mousedown" /\ rawLog[1].button = "Right"
    /\ rawLog[2].kind = "mouseup" /\ rawLog[2].button = "Right"
    /\ rawLog[3].kind = "mousedown" /\ rawLog[3].button = "Left"
    /\ Len(sent) = 1
    /\ get_mouse_button("Button1") = Press
    /\ get_mouse_button("Button2") = Release

\* the last raw keyboard event kind that names key k ("none" if none has)
RECURSIVE LastRawKey(_, _)
LastRawKey(log, k) ==
    IF log = <<>> THEN "none"
    ELSE IF log[Len(log)].kind \in {"keydown", "keyup"} /\ log[Len(log)].code = k
         THEN log[Len(log)].kind
         ELSE LastRawKey(SubSeq(log, 1, Len(log) - 1), k)

\* C4 - state/queue independence for keys: once the host has reported key
\* K pressed, get_key(K) is Press, and once it has reported K released
\* again, get_key(K) is Release, whether or not the queue was drained.
KeyStateFollowsKeyEvents ==
    \A k \in Keys :
        /\ LastRawKey(rawLog, k) = "keydown" => get_key(k) = Press
        /\ LastRawKey(rawLog, k) = "keyup" => get_key(k) = Release

\* a raw event whose button or key code names no MouseButton / Key
Unmappable(e) ==
    \/ e.kind \in {"mousedown", "mouseup"}
          /\ translate_mouse_button(e.button) \notin MouseButtons
    \/ e.kind \in {"keydown", "keyup"} /\ e.code \notin Keys

IdempotentEmptyDrain ==
    [][poll_events =>
          /\ pending_events' = <<>>
          /\ last = "poll_events" => (sent' = sent /\ out_events' = out_events)]_vars

\* C6 witness: a poll has just delivered two events and left the queue empty.
IdempotentEmptyDrainWitness ==
    /\ last = "poll_events"
    /\ Len(sent) = 2
    /\ out_events = sent
    /\ pending_events = <<>>
    /\ Len(rawLog) = 2

\* C7 - resizes are not coalesced: every raw resize appends exactly one
\* FramebufferSize event followed by one Size event of the scaled canvas
\* size to the pending queue, whatever is queued already.
ResizeNotCoalesced ==
    [][(rawLog' # rawLog /\ rawLog'[Len(rawLog')].kind = "resize") =>
          LET sz == rawLog'[Len(rawLog')].size
              w == Scaled(sz[1], hidpi_factor)
              h == Scaled(sz[2], hidpi_factor)
          IN pending_events' =
                 pending_events \o <<FramebufferSize(w, h), Size(w, h)>>]_vars

\* C7 witness: two resizes were dispatched before any poll and four events
\* (two FramebufferSize/Size pairs, in arrival order) are pending.
ResizeNotCoalescedWitness ==
    /\ Len(rawLog) = 2
    /\ rawLog[1].kind = "resize" /\ rawLog[1].size = <<401, 301>>
    /\ rawLog[2].kind = "resize" /\ rawLog[2].size = <<800, 600>>
    /\ sent = <<>>
    /\ hidpi_factor = 3
    /\ pending_events = <<FramebufferSize(601, 451), Size(601, 451),
                          FramebufferSize(1200, 900), Size(1200, 900)>>

\* the raw events [MouseDown(left), MouseMove(120, 80), MouseUp(left)]
ClickScenario ==
    <<[kind |-> "mousedown", button |-> "Left", flags |-> NoFlags],
      [kind |-> "mousemove", x |-> 120, y |-> 80, flags |-> NoFlags],
      [kind |-> "mouseup", button |-> "Left", flags |-> NoFlags]>>

\* C8 - mouse translation: each raw mouse-down, mouse-up and mouse-move
\* appends exactly one event: MouseButton(table(b), Press, mods),
\* MouseButton(table(b), Release, mods), CursorPos(x, y, mods) with the
\* client coordinates as given; and after [MouseDown(left),
\* MouseMove(120, 80), MouseUp(left)] the events are
\* [MouseButton(Button1, Press), CursorPos(120, 80),
\* MouseButton(Button1, Release)] and get_mouse_button(Button1) is Release.
MouseTranslation ==
    /\ [][(rawLog' # rawLog
             /\ rawLog'[Len(rawLog')].kind \in {"mousedown", "mouseup", "mousemove"}) =>
          LET e == rawLog'[Len(rawLog')]
          IN pending_events' = Append(pending_events,
                 CASE e.kind = "mousedown" ->
                        MouseButtonEvent(ButtonTable[e.button], Press,
                                         ModifiersOf(e.flags))
                   [] e.kind = "mouseup" ->
                        MouseButtonEvent(ButtonTable[e.button], Release,
                                         ModifiersOf(e.flags))
                   [] e.kind = "mousemove" ->
                        CursorPos(e.x, e.y, ModifiersOf(e.flags)))]_vars
    /\ [](rawLog = ClickScenario =>
            /\ sent \o pending_events =
                   <<MouseButtonEvent("Button1", Press, {}), CursorPos(120, 80, {}),
                     MouseButtonEvent("Button1", Release, {})>>
            /\ get_mouse_button("Button1") = Release)

\* C8 witness: the click scenario was dispatched and drained by one poll.
MouseTranslationWitness ==
    /\ rawLog = ClickScenario
    /\ last = "poll_events"
    /\ pending_events = <<>>
    /\ Len(out_events) = 3
    /\ out_events[2] = CursorPos(120, 80, {})

OneFrameOutstanding ==
    \A c \in 1..MaxChains :
        /\ requested[c] <= 1
        /\ running = c => requested[c] = 0
        /\ c > chains => requested[c] = 0 /\ invocations[c] = 0

\* C10 witness: two chains are live; the callback of the second one is
\* executing after the first one has run and been re-armed.
OneFrameOutstandingWitness ==
    /\ chains = 2
    /\ running = 2
    /\ invocations[1] = 1
    /\ requested[1] = 1
    /\ requested[2] = 0

----------------------------------------------------------------------------
(* Properties of the rest of the interface, checked under SpecApi *)

\* C11 - the query operations never touch the queue: a call of get_key,
\* get_mouse_button, size, hidpi_factor or should_close, in any state,
\* leaves the pending queue, both state arrays and the events handed to
\* the sink unchanged.
QueriesLeaveQueue ==
    [][(\/ call_get_key
        \/ call_get_mouse_button
        \/ call_size
        \/ call_hidpi_factor
        \/ call_should_close)
       => UNCHANGED <<pending_events, key_states, button_states,
                      out_events, sent>>]_vars

\* C11 witness: get_mouse_button was called while a left press was still
\* pending; it answers Press and the event is still in the queue.
QueriesLeaveQueueWitness ==
    /\ last = "get_mouse_button"
    /\ pending_events = <<MouseButtonEvent("Button1", Press, {})>>
    /\ get_mouse_button("Button1") = Press
    /\ sent = <<>>

\* C12 - the unsupported operations are no-ops that succeed: a call of
\* close, set_title, hide, show or swap_buffers, in any state, does not
\* fail and leaves the pending queue, both state arrays, the sink,
\* hidpi_factor and the answer of should_close unchanged.
UnsupportedAreNoOps ==
    [][(close \/ set_title \/ hide \/ show \/ swap_buffers)
       => /\ UNCHANGED <<pending_events, key_states, button_states,
                         out_events, sent, hidpi_factor>>
          /\ ~panicked'
          /\ should_close' = should_close]_vars

\* C12 witness: hide was called while the right button was held and its
\* press was still pending; the button is still held, the press pending.
UnsupportedAreNoOpsWitness ==
    /\ last = "hide"
    /\ ~panicked
    /\ button_states["Button2"] = Press
    /\ Len(pending_events) = 1

\* C13 - the backend stays Open: should_close answers false in every
\* state, no state but unopened, open and failed-to-open is ever reached,
\* and no step, explicit close() calls included, leaves the open state.
StaysOpen ==
    /\ [](phase \in {"unopened", "open", "failed"} /\ ~should_close)
    /\ [][phase = "open" => phase' = "open"]_vars

\* C13 witness: close() has just been called on a canvas that had
\* received an event, and the canvas is open.
StaysOpenWitness ==
    /\ last = "close"
    /\ phase = "open"
    /\ rawLog # <<>>
    /\ ~should_close

\* C15 - hidpi_factor() answers the device-pixel ratio read by open: the
\* step that opens the canvas fixes the answer to the ratio of that
\* moment, and no later step (resize events, changes of the host's
\* ratio, any operation) changes it.
HidpiFixedAtOpen ==
    /\ [][(phase = "unopened" /\ phase' = "open")
          => get_hidpi_factor' = devicePixelRatio]_vars
    /\ [][phase = "open" => get_hidpi_factor' = get_hidpi_factor]_vars

\* C15 witness: hidpi_factor() was called after a resize event and after
\* the host's ratio had moved away from the one read at open.
HidpiFixedAtOpenWitness ==
    /\ last = "hidpi_factor"
    /\ "resize" \in RawKinds(rawLog)
    /\ devicePixelRatio # get_hidpi_factor

\* C16 - exclusive-borrow discipline: between any two steps no borrow of
\* the shared data is held, so no borrow of a listener, of poll_events or
\* of a query ever meets a conflicting one and none panics; and a step
\* in which a listener runs hands nothing to the sink (no callback
\* drains).
BorrowDiscipline ==
    /\ [](borrow_flag = 0 /\ (phase = "open" => ~panicked))
    /\ [][rawLog' # rawLog => (sent' = sent /\ out_events' = out_events)]_vars

\* C16 witness: a listener borrowed mutably, poll_events borrowed mutably
\* and drained, then size took its two shared borrows at once; none
\* panicked.
BorrowDisciplineWitness ==
    /\ last = "size"
    /\ sent # <<>>
    /\ rawLog # <<>>
    /\ borrow_flag = 0
    /\ ~panicked

\* C17 - the shared data outlives the callbacks: in every state in which
\* a listener is still registered, each registered listener holds a
\* strong reference to the shared data, so the data is alive, also after
\* the WebGLCanvas value was dropped.
StateOutlivesCallbacks ==
    listeners # {} => rc_strong >= Cardinality(listeners)

\* C17 witness: the WebGLCanvas value was dropped, its listeners stayed
\* registered, and the mouse-down listener then ran and wrote the state.
StateOutlivesCallbacksWitness ==
    /\ canvas_dropped
    /\ last = "mousedown"
    /\ button_states["Button1"] = Press
    /\ rc_strong = 5

----------------------------------------------------------------------------
(* Properties of open, the listeners and poll_events, checked under Spec *)

\* C14 - a missing canvas element is fatal to open: while the document
\* has no canvas, no canvas is ever open, no listener is registered, no
\* shared data exists and no event is handled; a failed open has
\* panicked, and nothing leaves the failed state (no retry).
OpenFailsFatally ==
    /\ [](~canvasPresent =>
            /\ phase \in {"unopened", "failed"}
            /\ listeners = {}
            /\ rc_strong = 0
            /\ rawLog = <<>>
            /\ phase = "failed" => panicked)
    /\ [][phase = "failed" => phase' = "failed"]_vars

\* C14 witness: open was called without a canvas element and failed.
OpenFailsFatallyWitness ==
    /\ ~canvasPresent
    /\ last = "open"
    /\ phase = "failed"
    /\ panicked
    /\ listeners = {}

\* C18 - eventual delivery: under weak fairness of poll_events, the n-th
\* event a callback has pushed is eventually handed to the sink, for
\* every n; and no event is pending after a poll_events call.
EventuallyDelivered ==
    /\ \A n \in 1..(2 * MaxRaw) :
           (Len(sent) + Len(pending_events) >= n) ~> (Len(sent) >= n)
    /\ [][poll_events => pending_events' = <<>>]_vars

\* C18 witness: a resize pushed two events and the next poll_events
\* handed both to a live receiver.
EventuallyDeliveredWitness ==
    /\ last = "poll_events"
    /\ pending_events = <<>>
    /\ rx_alive
    /\ Len(sent) = 2
    /\ out_events = sent

\* C19 - a dropped receiver does not stop the drain: a poll_events call
\* made after the receiver was dropped does not fail, empties the pending
\* queue, and its events reach no receiver (each was handed to send, whose
\* error is ignored) and are not kept for a later poll.
DroppedReceiverStillDrains ==
    [][(poll_events /\ ~rx_alive)
       => /\ pending_events' = <<>>
          /\ ~panicked'
          /\ out_events' = out_events
          /\ sent' = sent \o pending_events]_vars

\* C19 witness: poll_events has drained events after the receiver was
\* dropped: more events were handed to send than the receiver was sent,
\* nothing is pending and nothing failed.
DroppedReceiverStillDrainsWitness ==
    /\ ~rx_alive
    /\ last = "poll_events"
    /\ pending_events = <<>>
    /\ Len(sent) > Len(out_events)
    /\ ~panicked

\* C20 - level state is written only by the mouse-down and mouse-up
\* listeners, each for the button it names: no step changes key_states;
\* the mouse-move, wheel and resize listeners and poll_events change no
\* entry of button_states; and an entry b of button_states changes only
\* in a step that handles a raw mouse-down or mouse-up whose button
\* translates to b.
LevelWritesAreLocal ==
    [][/\ key_states' = key_states
       /\ (mouse_move \/ wheel \/ resize \/ poll_events)
              => button_states' = button_states
       /\ \A b \in MouseButtons :
              button_states'[b] # button_states[b]
              => /\ Len(rawLog') = Len(rawLog) + 1
                 /\ rawLog'[Len(rawLog')].kind \in {"mousedown", "mouseup"}
                 /\ ButtonTable[rawLog'[Len(rawLog')].button] = b]_vars

\* C20 witness: with the left button held, the right button was pressed
\* and released; the left button is still held and the right one is up.
LevelWritesAreLocalWitness ==
    /\ last = "mouseup"
    /\ Len(rawLog) = 3
    /\ rawLog[1].kind = "mousedown" /\ rawLog[1].button = "Left"
    /\ rawLog[2].kind = "mousedown" /\ rawLog[2].button = "Right"
    /\ button_states["Button1"] = Press
    /\ button_states["Button2"] = Release

====
